---- MODULE Spec2Model ----
(***************************************************************************)
(* Demand and supply synthesis of MaaSSim (src/MaaSSim/utils.py):          *)
(* generate_demand and generate_vehicles as state machines.                *)
(*                                                                         *)
(* Units.  Skim entries, dist and dist_threshold are real numbers of       *)
(* seconds in the program; here they are counted in half seconds, so that  *)
(* the floor to whole seconds (line 183) is not the identity.  The raw     *)
(* temporal draws are in half seconds too, so that int() (line 165) is the *)
(* truncation toward zero that it is in Python.  treq, ttrav and tarr are  *)
(* whole seconds, treq and tarr relative to the Timestamp epoch.           *)
(*                                                                         *)
(* The skim is complete (every pair of nodes has a non-negative entry), as *)
(* load_G reads it; the dropna() of line 146 then removes nothing.         *)
(* params.nP is at least 1.                                                *)
(*                                                                         *)
(* pandas semantics used (pandas 1.x, the version the imports of the file  *)
(* belong to):                                                             *)
(*   DataFrame.sample(n) without replace raises ValueError when n exceeds  *)
(*     the number of rows;                                                 *)
(*   DataFrame.sample(n, weights=..) on an empty frame raises ValueError;  *)
(*   iterating None raises TypeError;                                      *)
(*   concat(objs, keys=keys) pairs keys and objs with zip, dropping the    *)
(*     surplus of the longer one, and raises ValueError when nothing is    *)
(*     left;                                                               *)
(*   sort_values uses an unstable sort: rows of equal key come out in any  *)
(*     order.                                                              *)
(***************************************************************************)
EXTENDS Integers, Sequences, FiniteSets, TLC

\* ----------------------------------------------------------------- bounds
NumNodes == 2        \* nodes of the network
MaxNP    == 3        \* largest passenger count params.nP tried
MaxNV    == 6        \* largest fleet size nV tried

\* ------------------------------------------------------------ input domains
Nodes == 1..NumNodes

\* values a skim entry takes, in half seconds
SkimVals == {2, 5}

\* values of params.dist_threshold, in half seconds
DistThresholds == {5, 6}

\* The skims tried: one value on the diagonal, one above it, one below it
\* (not symmetric; the diagonal is not assumed to be the smallest entry).
SkimOf(a, b, c) ==
    [o \in Nodes |-> [d \in Nodes |-> IF o = d THEN a ELSE IF o < d THEN b ELSE c]]

Skims == {SkimOf(a, b, c) : a \in SkimVals, b \in SkimVals, c \in SkimVals}

TemporalDistributions == {"uniform", "normal", "other"}

\* params.t0, seconds
t0 == 100

\* params.speeds.ride
speeds_ride == 2

\* raw draws of np.random.uniform(-simTime*3600/2, simTime*3600/2), half seconds
UniformDraws == {-3, 2}

\* raw draws of np.random.normal(simTime*3600/2, ...), half seconds
NormalDraws == {5}

VARIABLES
    skim,                   \* _inData.skim[o][d] = skim.loc[o, d]
    center,                 \* _inData.stats['center']
    dist_threshold,         \* _params.dist_threshold
    nP,                     \* _params.nP
    temporal_distribution,  \* _params.demand_structure.temporal_distribution
    pc,                     \* position in generate_demand
    err,                    \* the exception generate_demand ended with
    passengers,             \* _inData.passengers, rows in index order
    requests,               \* the request table, rows in index order
    looped,                 \* the body of the while loop has run
    halfRedrawn,            \* rows for which, in the last iteration of the loop, one
                            \* of the two sample(1) calls ran and the other did not
    nV,                     \* argument nV of generate_vehicles
    vpc,                    \* position in generate_vehicles
    vehicles                \* the value generate_vehicles returns

demandVars == <<skim, center, dist_threshold, nP, temporal_distribution,
                pc, err, passengers, requests, looped, halfRedrawn>>
vehVars == <<nV, vpc, vehicles>>
vars == <<demandVars, vehVars>>

\* ---------------------------------------------------------------- helpers
\* int(x) of a number given in half units: truncation toward zero
IntOfHalves(h) == IF h >= 0 THEN h \div 2 ELSE -((-h) \div 2)

\* pd.Timedelta(x, 's').floor('s') of a non-negative number of half seconds
FloorSeconds(h) == h \div 2

\* (ttrav / ride).dt.floor('1s')
DivFloor(t, ride) == t \div ride

Injective(f) == \A i, j \in DOMAIN f : f[i] = f[j] => i = j

Permutations1(n) == {p \in [1..n -> 1..n] : Injective(p)}

\* ------------------------------------------------- generate_demand: sampling
\* distances[distances['distance'] < dist_threshold]: the rows of the column
\* skim[center] (the entries skim.loc[n, center]) below the threshold
CandidateSet_Inclusive ==
    {n \in Nodes : skim[n][center] <= dist_threshold}

CandidateSet ==
    {n \in Nodes : skim[n][center] < dist_threshold}

\* Nodes distances.sample(.., weights='p_origin') can return: the weight
\* exp(origins_dispertion * distance) is positive for every row of distances.
OriginSupport_AllNodes == Nodes

OriginSupport == CandidateSet

\* likewise for weights='p_destination'
DestinationSupport == CandidateSet

\* The values of the list built at line 165, [t0 + Timedelta(int(_), 's') for _
\* in treq]; the empty set stands for treq = None, which cannot be iterated.
TreqSupport_Fallback(td) ==
    {t0 + IntOfHalves(x) : x \in IF td = "normal" THEN NormalDraws ELSE UniformDraws}

TreqSupport(td) ==
    IF td = "uniform" THEN {t0 + IntOfHalves(x) : x \in UniformDraws}
    ELSE IF td = "normal" THEN {t0 + IntOfHalves(x) : x \in NormalDraws}
    ELSE {}

\* nodes.sample(nP).index: nP distinct nodes.  The order of the sample is left
\* out (the nodes are listed in increasing order): nothing reads passengers.pos
\* before line 194 overwrites it.
NodeSamples(n) == {f \in [1..n -> Nodes] : \A i, j \in 1..n : i < j => f[i] < f[j]}

\* ---------------------------------------------- generate_demand: the prelude
\* line 143: nodes.sample(nP) with nP larger than the number of nodes
ErrSample ==
    /\ pc = "start"
    /\ nP > Cardinality(Nodes)
    /\ pc' = "error"
    /\ err' = "ValueError:143"
    /\ UNCHANGED <<skim, center, dist_threshold, nP, temporal_distribution,
                   passengers, requests, looped, halfRedrawn>>

\* line 165: treq is None; _inData.passengers was already replaced at line 144
ErrTemporal ==
    /\ pc = "start"
    /\ nP <= Cardinality(Nodes)
    /\ TreqSupport(temporal_distribution) = {}
    /\ \E ppos \in NodeSamples(nP) :
          passengers' = [i \in 1..nP |-> [pos |-> ppos[i], status |-> "STARTS_DAY"]]
    /\ pc' = "error"
    /\ err' = "TypeError:165"
    /\ UNCHANGED <<skim, center, dist_threshold, nP, temporal_distribution,
                   requests, looped, halfRedrawn>>

\* line 167: distances is empty, sample(nP, weights=..) raises
ErrEmptyCandidates ==
    /\ pc = "start"
    /\ nP <= Cardinality(Nodes)
    /\ TreqSupport(temporal_distribution) # {}
    /\ CandidateSet = {}
    /\ \E ppos \in NodeSamples(nP) :
          passengers' = [i \in 1..nP |-> [pos |-> ppos[i], status |-> "STARTS_DAY"]]
    /\ pc' = "error"
    /\ err' = "ValueError:167"
    /\ UNCHANGED <<skim, center, dist_threshold, nP, temporal_distribution,
                   requests, looped, halfRedrawn>>

\* lines 141-171: passengers, treq, the bulk draw of origins and destinations, dist
Prelude ==
    /\ pc = "start"
    /\ nP <= Cardinality(Nodes)
    /\ TreqSupport(temporal_distribution) # {}
    /\ CandidateSet # {}
    /\ \E ppos \in NodeSamples(nP) :
          passengers' = [i \in 1..nP |-> [pos |-> ppos[i], status |-> "STARTS_DAY"]]
    /\ \E tr \in [1..nP -> TreqSupport(temporal_distribution)],
          o \in [1..nP -> OriginSupport],
          d \in [1..nP -> DestinationSupport] :
          requests' = [i \in 1..nP |->
                         [origin      |-> o[i],
                          destination |-> d[i],
                          dist        |-> skim[o[i]][d[i]],
                          treq        |-> tr[i]]]
    /\ pc' = "loop"
    /\ UNCHANGED <<skim, center, dist_threshold, nP, temporal_distribution,
                   err, looped, halfRedrawn>>

\* ------------------------------------- generate_demand: rejection resampling
\* request.dist >= _params.dist_threshold, the test of lines 174 and 178
NeedsRedraw_Strict(row) == row.dist > dist_threshold

NeedsRedraw(row) == row.dist >= dist_threshold

\* line 172: len(requests[requests.dist >= dist_threshold]) > 0
LoopCond_Strict(reqs) == \E i \in DOMAIN reqs : reqs[i].dist > dist_threshold

LoopCond(reqs) == \E i \in DOMAIN reqs : reqs[i].dist >= dist_threshold

\* line 181 (and 171): dist looked up again for every row
RecomputeDist(reqs) ==
    [i \in DOMAIN reqs |-> [reqs[i] EXCEPT !.dist = skim[reqs[i].origin][reqs[i].destination]]]

\* lines 173-176: newO[i] is what sample(1, weights='p_origin') returns for row i


RedrawOrigins_ThenDist(reqs, newO) ==
    RecomputeDist([i \in DOMAIN reqs |->
        [reqs[i] EXCEPT !.origin = IF NeedsRedraw(reqs[i]) THEN newO[i] ELSE @]])

RedrawOrigins(reqs, newO) ==
    [i \in DOMAIN reqs |->
        [reqs[i] EXCEPT !.origin = IF NeedsRedraw(reqs[i]) THEN newO[i] ELSE @]]

\* lines 177-180: the dist column still holds the values of the iteration's start
RedrawDestinations(reqs, newD) ==
    [i \in DOMAIN reqs |->
        [reqs[i] EXCEPT !.destination = IF NeedsRedraw(reqs[i]) THEN newD[i] ELSE @]]

\* the rows for which the lambda of an apply calls distances.sample(1, ..)
SampleCalls(reqs) == {i \in DOMAIN reqs : NeedsRedraw(reqs[i])}

\* the body of the while loop, lines 173-181, with the draws newO and newD
LoopBody(newO, newD) ==
    LET afterO == RedrawOrigins(requests, newO)
    IN  /\ requests' = RecomputeDist(RedrawDestinations(afterO, newD))
        /\ looped' = TRUE
        /\ halfRedrawn' = (SampleCalls(requests) \ SampleCalls(afterO))
                              \cup (SampleCalls(afterO) \ SampleCalls(requests))
        /\ UNCHANGED <<skim, center, dist_threshold, nP, temporal_distribution,
                       pc, err, passengers>>

\* one iteration of the while loop, lines 172-181
LoopIter ==
    /\ pc = "loop"
    /\ LoopCond(requests)
    /\ \E newO \in [SampleCalls(requests) -> OriginSupport] :
          \E newD \in [SampleCalls(RedrawOrigins(requests, newO)) -> DestinationSupport] :
             LoopBody(newO, newD)

\* ------------------------------------------ generate_demand: lines 183-198
\* line 183
ComputeTtrav(reqs) ==
    [i \in DOMAIN reqs |->
        [origin |-> reqs[i].origin, destination |-> reqs[i].destination,
         dist |-> reqs[i].dist, treq |-> reqs[i].treq,
         ttrav |-> FloorSeconds(reqs[i].dist)]]

\* line 186
NormalizeSpeed(reqs) ==
    [i \in DOMAIN reqs |-> [reqs[i] EXCEPT !.ttrav = DivFloor(@, speeds_ride)]]

\* line 187
ComputeTarr(reqs) ==
    [i \in DOMAIN reqs |->
        [origin |-> reqs[i].origin, destination |-> reqs[i].destination,
         dist |-> reqs[i].dist, treq |-> reqs[i].treq, ttrav |-> reqs[i].ttrav,
         tarr |-> reqs[i].treq + reqs[i].ttrav]]

\* lines 183-187
TravelTimes_TarrFirst(reqs, avg_speed) ==
    LET t == ComputeTarr(ComputeTtrav(reqs))
    IN  IF avg_speed THEN NormalizeSpeed(t) ELSE t

TravelTimes(reqs, avg_speed) ==
    LET t == ComputeTtrav(reqs)
    IN  ComputeTarr(IF avg_speed THEN NormalizeSpeed(t) ELSE t)

\* line 188: the orders sort_values('treq') can leave the rows in
SortValues_Unsorted(reqs) == {reqs}

SortValues(reqs) ==
    {[i \in DOMAIN reqs |-> reqs[p[i]]] :
        p \in {q \in Permutations1(Len(reqs)) :
                 \A i, j \in 1..Len(reqs) : i < j => reqs[q[i]].treq <= reqs[q[j]].treq}}

\* lines 189-191: index and pax_id are df.index (0 .. nP-1), shareable is False
Reindex(reqs) ==
    [i \in DOMAIN reqs |->
        [origin |-> reqs[i].origin, destination |-> reqs[i].destination,
         dist |-> reqs[i].dist, treq |-> reqs[i].treq, ttrav |-> reqs[i].ttrav,
         tarr |-> reqs[i].tarr, pax_id |-> i - 1, shareable |-> FALSE]]

\* lines 172 (the loop's exit) and 183-198; the argument avg_speed is read at
\* line 185 only, and is drawn here
Finalize ==
    /\ pc = "loop"
    /\ ~LoopCond(requests)
    /\ \E avg_speed \in BOOLEAN :
          \E sorted \in SortValues(TravelTimes(requests, avg_speed)) :
             /\ requests' = Reindex(sorted)
             /\ passengers' = [i \in DOMAIN passengers |->
                                 [pos       |-> sorted[i].origin,
                                  status    |-> passengers[i].status,
                                  platforms |-> <<0>>]]
    /\ pc' = "done"
    /\ UNCHANGED <<skim, center, dist_threshold, nP, temporal_distribution,
                   err, looped, halfRedrawn>>

\* ------------------------------------------------------- generate_vehicles
Min(a, b) == IF a <= b THEN a ELSE b

\* lines 123-125: one empty Series per i in range(nV + 1), named i
EmptySeriesList(n) == [k \in 1..(n + 1) |-> k - 1]

\* range(1, nV + 1)
VehicleKeys(n) == [k \in 1..n |-> k]

\* line 127: concat pairs keys with objects by zip; the sequence of the keys of
\* the pairs that are left, which become the index of the transposed frame
ConcatKeys(objs, keys) == [k \in 1..Min(Len(keys), Len(objs)) |-> keys[k]]

\* line 127 with nothing left to concatenate
GenerateVehiclesErr ==
    /\ vpc = "start"
    /\ Len(ConcatKeys(EmptySeriesList(nV), VehicleKeys(nV))) = 0
    /\ vpc' = "error"
    /\ UNCHANGED <<nV, vehicles>>
    /\ UNCHANGED demandVars

\* lines 123-134
GenerateVehicles ==
    /\ vpc = "start"
    /\ LET index == ConcatKeys(EmptySeriesList(nV), VehicleKeys(nV))
       IN  /\ Len(index) > 0
           /\ \E rnd \in [1..Len(index) -> Nodes] :
                 vehicles' = [k \in 1..Len(index) |->
                                [id          |-> index[k],
                                 pos         |-> rnd[k],
                                 event       |-> "STARTS_DAY",
                                 platform    |-> 0,
                                 shift_start |-> 0,
                                 shift_end   |-> 60 * 60 * 24]]
    /\ vpc' = "done"
    /\ UNCHANGED nV
    /\ UNCHANGED demandVars

\* ------------------------------------------------------------ specifications
\* generate_demand is called; generate_vehicles is not
Init ==
    /\ skim \in Skims
    /\ center \in Nodes
    /\ dist_threshold \in DistThresholds
    /\ nP \in 1..MaxNP
    /\ temporal_distribution \in TemporalDistributions
    /\ pc = "start"
    /\ err = "none"
    /\ passengers = << >>
    /\ requests = << >>
    /\ looped = FALSE
    /\ halfRedrawn = {}
    /\ nV = 0
    /\ vpc = "idle"
    /\ vehicles = << >>

Next ==
    \/ ErrSample /\ UNCHANGED vehVars
    \/ ErrTemporal /\ UNCHANGED vehVars
    \/ ErrEmptyCandidates /\ UNCHANGED vehVars
    \/ Prelude /\ UNCHANGED vehVars
    \/ LoopIter /\ UNCHANGED vehVars
    \/ Finalize /\ UNCHANGED vehVars

Spec == Init /\ [][Next]_vars

\* An iteration in which every draw returns the same pair (o, d) of candidates,
\* a pair below the threshold.
LoopIterFeasible ==
    /\ pc = "loop"
    /\ LoopCond(requests)
    /\ \E o \in OriginSupport, d \in DestinationSupport :
          /\ skim[o][d] < dist_threshold
          /\ LET newO == [i \in SampleCalls(requests) |-> o]
                 newD == [i \in SampleCalls(RedrawOrigins(requests, newO)) |-> d]
             IN  LoopBody(newO, newD)
    /\ UNCHANGED vehVars

\* Fair draws: every candidate has a positive weight and the draws of an
\* iteration are independent of those before, so draws that are possible at
\* every iteration happen in the end; the code after the loop runs.
FairSpec ==
    Spec /\ WF_vars(LoopIterFeasible)
         /\ WF_vars(Finalize /\ UNCHANGED vehVars)

\* generate_vehicles is called on a loaded network; generate_demand is not
InitVehicles ==
    /\ skim = SkimOf(2, 5, 5)
    /\ center = 1
    /\ dist_threshold = 5
    /\ nP = 1
    /\ temporal_distribution = "uniform"
    /\ pc = "idle"
    /\ err = "none"
    /\ passengers = << >>
    /\ requests = << >>
    /\ looped = FALSE
    /\ halfRedrawn = {}
    /\ nV \in 0..MaxNV
    /\ vpc = "start"
    /\ vehicles = << >>

NextVehicles == GenerateVehicles \/ GenerateVehiclesErr

SpecVehicles == InitVehicles /\ [][NextVehicles]_vars

\* ------------------------------------------------------------------ claims
\* nodes within the threshold of the center, written out from the skim
WithinThreshold == {n \in Nodes : skim[n][center] < dist_threshold}

\* some pair of candidate nodes is closer than the threshold
FeasiblePair ==
    \E o \in WithinThreshold, d \in WithinThreshold : skim[o][d] < dist_threshold

\* some pair of candidate nodes is not
InfeasiblePair ==
    \E o \in WithinThreshold, d \in WithinThreshold : skim[o][d] >= dist_threshold

\* C1: in the request table generate_demand returns, every row has
\* dist = skim[origin][destination] and dist < dist_threshold.
C1_DistBelowThreshold ==
    pc = "done" =>
        \A i \in 1..Len(requests) :
            /\ requests[i].dist = skim[requests[i].origin][requests[i].destination]
            /\ requests[i].dist < dist_threshold

\* generate_demand returned after the loop body ran, on a skim that has pairs
\* of candidates at or above the threshold
C1_Witness ==
    /\ pc = "done"
    /\ looped
    /\ InfeasiblePair
    /\ Len(requests) >= 2

\* C2: generate_vehicles returns, for every nV >= 0, a table of exactly nV rows,
\* each with pos a node, event STARTS_DAY, platform 0, shift_start 0 and
\* shift_end 86400.
C2_VehicleRows ==
    vpc # "start" =>
        /\ vpc = "done"
        /\ Len(vehicles) = nV
        /\ \A k \in 1..Len(vehicles) :
              /\ vehicles[k].pos \in Nodes
              /\ vehicles[k].event = "STARTS_DAY"
              /\ vehicles[k].platform = 0
              /\ vehicles[k].shift_start = 0
              /\ vehicles[k].shift_end = 86400

\* C3: for every nP, when the candidates hold a feasible pair (and the temporal
\* distribution is a known one), generate_demand does not end in an error, and
\* when it returns both tables have exactly nP rows.
C3_CompletesWithNPRows ==
    (FeasiblePair /\ temporal_distribution \in {"uniform", "normal"}) =>
        /\ pc # "error"
        /\ pc = "done" => Len(requests) = nP /\ Len(passengers) = nP

\* the (origin, destination, dist, treq) tuples of a table, with their counts
RowTuple(r) == <<r.origin, r.destination, r.dist, r.treq>>

RowCount(reqs, t) == Cardinality({i \in DOMAIN reqs : RowTuple(reqs[i]) = t})

\* C4: the returned request table is ordered by non-decreasing treq, and the
\* step that sorts it keeps each row's origin, destination, dist and treq
\* together (the rows after are the rows before, rearranged).
C4_SortedByTreq ==
    /\ [](pc = "done" =>
            \A i, j \in 1..Len(requests) :
                i < j => requests[i].treq <= requests[j].treq)
    /\ [][(pc = "loop" /\ pc' = "done") =>
            /\ Len(requests') = Len(requests)
            /\ \A i \in 1..Len(requests) :
                  RowCount(requests', RowTuple(requests[i]))
                      = RowCount(requests, RowTuple(requests[i]))]_vars

\* a returned table of rows with different request times
C4_Witness ==
    /\ pc = "done"
    /\ \E i, j \in 1..Len(requests) :
          /\ requests[i].treq < requests[j].treq
          /\ requests[i].origin # requests[j].origin

\* C5: in the returned table tarr = treq + ttrav for every row, with ttrav the
\* floor of dist in seconds for every row (avg_speed = False), or that floor
\* divided by speeds.ride and floored again for every row (avg_speed = True).
C5_ArrivalIsRequestPlusTravel ==
    pc = "done" =>
        /\ \A i \in 1..Len(requests) :
              requests[i].tarr = requests[i].treq + requests[i].ttrav
        /\ \/ \A i \in 1..Len(requests) :
                 2 * requests[i].ttrav <= requests[i].dist
                 /\ requests[i].dist < 2 * (requests[i].ttrav + 1)
           \/ \A i \in 1..Len(requests) :
                 \E f \in 0..requests[i].dist :
                    /\ 2 * f <= requests[i].dist
                    /\ requests[i].dist < 2 * (f + 1)
                    /\ speeds_ride * requests[i].ttrav <= f
                    /\ f < speeds_ride * (requests[i].ttrav + 1)

\* a returned table in which the speed normalization changed a travel time
C5_Witness ==
    /\ pc = "done"
    /\ \E i \in 1..Len(requests) :
          /\ 2 * (requests[i].ttrav + 1) <= requests[i].dist
          /\ requests[i].ttrav > 0

\* C6: with no node within the threshold of the center (and nP >= 1),
\* generate_demand ends in an error: it never reaches the loop, never returns,
\* and leaves the request table as it was.
C6_EmptyCandidatesRaise ==
    (\A n \in Nodes : skim[n][center] >= dist_threshold) =>
        /\ pc \in {"start", "error"}
        /\ requests = << >>

\* the weighted sample on the empty candidate table raised
C6_Witness ==
    /\ \A n \in Nodes : skim[n][center] >= dist_threshold
    /\ pc = "error"
    /\ err = "ValueError:167"

\* C7 as claimed: with a temporal distribution that is neither 'uniform' nor
\* 'normal' generate_demand raises no error.
C7_FailsSilently ==
    (temporal_distribution = "other" /\ nP <= Cardinality(Nodes)) => pc # "error"

\* C7 as amended: with a temporal distribution that is neither 'uniform' nor
\* 'normal' generate_demand ends in an error (the TypeError of line 165, or the
\* ValueError of line 143 before it) and produces no request table.
C7_UnknownDistributionRaises ==
    (temporal_distribution = "other" /\ pc # "start") =>
        /\ pc = "error"
        /\ err \in {"TypeError:165", "ValueError:143"}
        /\ requests = << >>

\* the conversion of treq = None raised
C7_Witness ==
    /\ temporal_distribution = "other"
    /\ pc = "error"
    /\ err = "TypeError:165"
    /\ Len(passengers) = nP

\* rows of a table that satisfy the constraint
Satisfied(reqs) == {i \in DOMAIN reqs : reqs[i].dist < dist_threshold}

\* C8: in every iteration of the loop a row with dist < dist_threshold keeps its
\* origin, destination and dist; a row with dist >= dist_threshold has both
\* sample(1) calls run for it (none of the two is skipped because of the
\* other), gets an origin and a destination from the candidates and its dist
\* looked up again; the set of rows that satisfy the constraint does not shrink.
C8_OnlyOffendingRowsRedrawn ==
    [][(pc = "loop" /\ pc' = "loop") =>
          /\ Len(requests') = Len(requests)
          /\ halfRedrawn' = {}
          /\ \A i \in 1..Len(requests) :
                /\ requests'[i].treq = requests[i].treq
                /\ requests[i].dist < dist_threshold => requests'[i] = requests[i]
                /\ requests[i].dist >= dist_threshold =>
                      /\ requests'[i].origin \in WithinThreshold
                      /\ requests'[i].destination \in WithinThreshold
                      /\ requests'[i].dist
                            = skim[requests'[i].origin][requests'[i].destination]
          /\ \A i \in 1..Len(requests) :
                requests[i].dist < dist_threshold => requests'[i].dist < dist_threshold]_vars

\* after an iteration: a row that satisfies the constraint next to one that
\* does not
C8_Witness ==
    /\ pc = "loop"
    /\ looped
    /\ Satisfied(requests) # {}
    /\ Satisfied(requests) # DOMAIN requests

\* some row of the request table is at or above the threshold
Offending == \E i \in 1..Len(requests) : requests[i].dist >= dist_threshold

\* C9: the loop has no error exit and no cap: from the loop the function goes
\* on in the loop or returns; with a feasible pair among the candidates (or no
\* offending row) it returns in the end, under fair draws; with no feasible
\* pair and an offending row it stays in the loop, with an offending row, at
\* every step.
C9_LoopTermination ==
    /\ [][pc = "loop" => (pc' \in {"loop", "done"} /\ err' = "none")]_vars
    /\ [][(pc = "loop" /\ Offending /\ ~FeasiblePair) => (pc' = "loop" /\ Offending')]_vars
    /\ [](pc = "loop" /\ (FeasiblePair \/ ~Offending) => <>(pc = "done"))

\* the loop ran and returned on a skim with both kinds of pairs
C9_Witness ==
    /\ pc = "done"
    /\ looped
    /\ FeasiblePair
    /\ InfeasiblePair


\* C10: from the bulk draw on, through every iteration and in the returned
\* table, every origin and every destination is a node whose distance from the
\* center is below dist_threshold.
C10_EndpointsAreCandidates ==
    pc \in {"loop", "done"} =>
        \A i \in 1..Len(requests) :
            /\ requests[i].origin \in WithinThreshold
            /\ requests[i].destination \in WithinThreshold

\* the loop ran while some node of the network was not a candidate
C10_Witness ==
    /\ pc = "loop"
    /\ looped
    /\ WithinThreshold # Nodes
    /\ Len(requests) >= 2

====
